---- MODULE Spec2Model ----
(***************************************************************************)
(* Model of the fruit pricing dashboard script assignment.py.              *)
(*                                                                         *)
(* The script is a Streamlit page: it runs top to bottom once when the     *)
(* session opens and once more after every widget interaction, so every    *)
(* action below is "one interaction followed by one whole script run".     *)
(*                                                                         *)
(* Values.  A csv file is text; a cell of the file is a sequence of tokens *)
(* (numbers and separators), the empty sequence being an empty cell.       *)
(* Prices are kept in cents, a mean is an exact fraction num/den, a        *)
(* pandas NaN / NaT is a value with the flag nan / nat set.  A DataFrame   *)
(* is [columns, rows], rows being functions from column name to cell.      *)
(* DataFrame objects live in the sequence "frames"; df and filtered_df     *)
(* are the positions the two Python names are bound to (0: unbound).       *)
(*                                                                         *)
(* Input assumption: only the beginDate cells of the file may be empty or  *)
(* malformed; the other columns hold well-formed values.                   *)
(***************************************************************************)
EXTENDS Integers, Sequences, FiniteSets, TLC

VARIABLES
    source,              \* the csv file final_fruit.csv: [columns, rows]
    run_count,           \* script runs so far in this session
    selected_countries,  \* value of the "Select Countries" widget
    selected_products,   \* value of the "Select Products" widget
    selected_months,     \* value of the "Select Months" widget
    selected_varieties,  \* value of the "Select Varieties" widget
    frames,              \* the DataFrame objects of the current run
    df,                  \* object bound to df
    filtered_df,         \* object bound to filtered_df
    halted,              \* "none", or the line whose exception ended the run
    metrics,             \* the three st.metric values
    avg_prices,          \* Insight 1 table
    top_5_expensive,     \* Insight 6 series
    top_5_cheapest,      \* Insight 7 series
    csv                  \* payload of the download button

vars == <<source, run_count, selected_countries, selected_products,
          selected_months, selected_varieties, frames, df, filtered_df,
          halted, metrics, avg_prices, top_5_expensive, top_5_cheapest, csv>>

(***************************************************************************)
(* Bounds of the model.                                                    *)
(***************************************************************************)
MaxRows == 3
MaxRuns == 2
NumRankVarieties == 11

(***************************************************************************)
(* Program constants.                                                      *)
(***************************************************************************)
TopN == 5
Decimals == 2

(***************************************************************************)
(* Generic helpers.                                                        *)
(***************************************************************************)
Range(s) == {s[i] : i \in DOMAIN s}

RECURSIVE SumSeq(_)
SumSeq(s) == IF s = <<>> THEN 0 ELSE Head(s) + SumSeq(Tail(s))

RECURSIVE GCD(_, _)
GCD(a, b) == IF b = 0 THEN a ELSE GCD(b, a % b)

RECURSIVE Pow10(_)
Pow10(n) == IF n = 0 THEN 1 ELSE 10 * Pow10(n - 1)

\* Code point order of the strings the model uses: the order in which
\* groupby sorts its keys.
SortOrder ==
    <<"Apple", "Boskoop", "Braeburn", "Comice", "Conference", "Cox", "Elstar",
      "FR", "Fuji", "Gala", "Granny Smith", "Idared", "Jonagold", "NL",
      "Navel", "Pear", "Pink Lady", "Reinette", "Rocha", "William">>

SortedKeys(S) == SelectSeq(SortOrder, LAMBDA s : s \in S)

(***************************************************************************)
(* The csv file: column names and cell texts.                              *)
(***************************************************************************)
PlaceholderColumn == "Unnamed: 0"

BaseColumns == <<"memberStateCode", "product", "variety_name", "price", "beginDate">>

\* text of a price in the file: euros "." cents
PriceText(cents) == <<cents \div 100, ".", cents % 100>>

\* text of a date written day/month/year
DMY(d, m, y) == <<d, "/", m, "/", y>>

\* text of a date written year-month-day
ISO(y, m, d) == <<y, "-", m, "-", d>>

FileRow(cc, p, v, cents, date) ==
    [memberStateCode |-> <<cc>>, product |-> <<p>>, variety_name |-> <<v>>,
     price |-> PriceText(cents), beginDate |-> date]

\* The rows a file of the small specification is made of: two rows of one
\* (country, product, variety) group in different months, a row of another
\* group, a row with an empty date cell, a row with a date in another format.
RowPool ==
    << FileRow("FR", "Apple", "Gala", 120, DMY(5, 1, 2024)),
       FileRow("FR", "Apple", "Gala", 140, DMY(15, 2, 2024)),
       FileRow("NL", "Pear", "Conference", 90, DMY(10, 1, 2024)),
       FileRow("NL", "Apple", "Elstar", 90, <<>>),
       FileRow("FR", "Pear", "Conference", 120, ISO(2024, 1, 20)) >>

\* A file written by DataFrame.to_csv with its index has the index as a
\* first column without a name, which read_csv names "Unnamed: 0".
WithIndexColumn(rows) ==
    [i \in DOMAIN rows |-> (PlaceholderColumn :> <<i - 1>>) @@ rows[i]]

File(rows, indexed) ==
    IF indexed
    THEN [columns |-> <<PlaceholderColumn>> \o BaseColumns, rows |-> WithIndexColumn(rows)]
    ELSE [columns |-> BaseColumns, rows |-> rows]

RECURSIVE SeqsUpTo(_, _)
SeqsUpTo(S, n) ==
    IF n = 0 THEN {<<>>}
    ELSE LET shorter == SeqsUpTo(S, n - 1)
         IN shorter \cup {Append(s, x) : s \in shorter, x \in S}

\* the files of one to MaxRows rows, with and without the index column
SmallFiles ==
    {File([i \in DOMAIN picks |-> RowPool[picks[i]]], indexed) :
        picks \in SeqsUpTo(DOMAIN RowPool, MaxRows) \ {<<>>}, indexed \in BOOLEAN}

\* The files of the ranking cases: one row per variety, in the order of
\* RankVarieties, all of one country, product and month.  The first "tied"
\* varieties cost the same, every other one has a price of its own.
RankVarieties ==
    <<"Jonagold", "Boskoop", "William", "Cox", "Rocha", "Braeburn", "Navel",
      "Comice", "Pink Lady", "Fuji", "Idared", "Reinette", "Granny Smith">>

RankPrices == <<150, 95, 210, 130, 80, 175, 110, 240, 60, 190, 125, 100, 165>>

RankFile(tied) ==
    File([i \in 1..NumRankVarieties |->
            FileRow("FR", "Apple", RankVarieties[i],
                    IF i <= tied THEN 120 ELSE RankPrices[i], DMY(5, 1, 2024))],
         FALSE)

RankFiles == {RankFile(tied) : tied \in 0..NumRankVarieties}

(***************************************************************************)
(* Loader, lines 13-22.                                                    *)
(***************************************************************************)
NaN == [nan |-> TRUE, num |-> 0, den |-> 1]

Number(n) == [nan |-> FALSE, num |-> n, den |-> 1]

NaT == [nat |-> TRUE, y |-> 0, m |-> 0, d |-> 0]

Timestamp(y, m, d) == [nat |-> FALSE, y |-> y, m |-> m, d |-> d]

\* read_csv's parse of one cell
ReadCell(col, text) ==
    CASE col = "price" -> text[1] * 100 + text[3]
      [] col = "beginDate" -> [na |-> text = <<>>, text |-> text]
      [] col = "month" -> IF text = <<>> THEN NaN ELSE Number(text[1])
      [] OTHER -> text[1]

\* pd.read_csv: the columns of the file, every cell parsed; an empty cell is NaN
load_data(file) ==
    [columns |-> file.columns,
     rows |-> [i \in DOMAIN file.rows |->
                 [c \in DOMAIN file.rows[i] |-> ReadCell(c, file.rows[i][c])]]]

IsLeap(y) == (y % 4 = 0 /\ y % 100 # 0) \/ y % 400 = 0

DaysInMonth(m, y) ==
    CASE m \in {4, 6, 9, 11} -> 30
      [] m = 2 -> IF IsLeap(y) THEN 29 ELSE 28
      [] OTHER -> 31

\* whether a text matches format='%d/%m/%Y'
MatchesFormat(text) ==
    /\ Len(text) = 5
    /\ text[2] = "/"
    /\ text[4] = "/"
    /\ text[3] \in 1..12
    /\ text[1] \in 1..DaysInMonth(text[3], text[5])

\* pd.to_datetime of one cell: NaN gives NaT, a text that does not match raises
CellConverts(cell) == cell.na \/ MatchesFormat(cell.text)

ConvertCell(cell) ==
    IF cell.na THEN NaT ELSE Timestamp(cell.text[5], cell.text[3], cell.text[1])

\* line 21 raises when some cell does not convert
to_datetime_raises(frame) ==
    \E i \in DOMAIN frame.rows : ~CellConverts(frame.rows[i].beginDate)

\* .dt.month
MonthOf(ts) == IF ts.nat THEN NaN ELSE Number(ts.m)

\* lines 21-22: beginDate converted in place, month appended as the last column
AddMonth(frame) ==
    [columns |-> Append(frame.columns, "month"),
     rows |-> [i \in DOMAIN frame.rows |->
                 LET ts == ConvertCell(frame.rows[i].beginDate)
                 IN [frame.rows[i] EXCEPT !.beginDate = ts] @@ ("month" :> MonthOf(ts))]]

(***************************************************************************)
(* Filter Engine, lines 24-58.                                             *)
(***************************************************************************)
\* Series.unique(): the values of a column
unique(frame, col) == {frame.rows[i][col] : i \in DOMAIN frame.rows}

RowMaskNoVariety(r, sc, sp, sv, sm) ==
    r.memberStateCode \in sc /\ r.product \in sp /\ r.month \in sm

RowMaskNaNNeverIn(r, sc, sp, sv, sm) ==
    /\ r.memberStateCode \in sc
    /\ r.product \in sp
    /\ r.variety_name \in sv
    /\ ~r.month.nan /\ r.month \in sm

RowMaskEmptyIsAll(r, sc, sp, sv, sm) ==
    /\ (sc = {} \/ r.memberStateCode \in sc)
    /\ (sp = {} \/ r.product \in sp)
    /\ (sv = {} \/ r.variety_name \in sv)
    /\ (sm = {} \/ r.month \in sm)

\* the boolean mask of lines 54-57 at one row; isin matches NaN with NaN
RowMask(r, sc, sp, sv, sm) ==
    /\ r.memberStateCode \in sc
    /\ r.product \in sp
    /\ r.variety_name \in sv
    /\ r.month \in sm

\* df[mask]: the rows where the mask holds, in order, all columns
BooleanIndex(frame, sc, sp, sv, sm) ==
    [columns |-> frame.columns,
     rows |-> SelectSeq(frame.rows, LAMBDA r : RowMask(r, sc, sp, sv, sm))]

MaskTargetAlias(heap, src) == src

\* the object df[mask] evaluates to: a new DataFrame, never df itself
MaskTarget(heap, src) == Len(heap) + 1

Store(heap, id, frame) ==
    IF id \in DOMAIN heap THEN [heap EXCEPT ![id] = frame] ELSE Append(heap, frame)

(***************************************************************************)
(* Aggregator, lines 60-146.                                               *)
(***************************************************************************)
Prices(rows) == [i \in DOMAIN rows |-> rows[i].price]

\* Series.mean(): NaN for no rows
Mean(prices) ==
    IF prices = <<>> THEN NaN
    ELSE LET s == SumSeq(prices)
             n == Len(prices)
             g == GCD(s, n)
         IN [nan |-> FALSE, num |-> s \div g, den |-> n \div g]

\* round(x, 2) in cents: the nearest cent, a half going to the even cent
\* (on the exact mean; no property below reads the rounded digits);
\* round(nan, 2) is nan
Round(m, digits) ==
    IF m.nan THEN NaN
    ELSE LET scale == Pow10(digits) \div 100
             n == m.num * scale
             q == n \div m.den
             r == n % m.den
         IN Number(IF 2 * r < m.den THEN q
                   ELSE IF 2 * r > m.den THEN q + 1
                   ELSE IF q % 2 = 0 THEN q ELSE q + 1)

\* lines 64-68
Summary(view) ==
    [total |-> Len(view.rows),
     average |-> Round(Mean(Prices(view.rows)), Decimals),
     varieties |-> Cardinality(unique(view, "variety_name"))]

\* groupby(col)['price'].mean(): one entry per value of col, keys sorted
GroupMean(view, col) ==
    LET keys == SortedKeys(unique(view, col))
    IN [k \in DOMAIN keys |->
          [key |-> keys[k],
           value |-> Mean(Prices(SelectSeq(view.rows, LAMBDA r : r[col] = keys[k])))]]

\* groupby([c1, c2])['price'].mean(): one entry per pair with rows, sorted
GroupMean2(view, c1, c2) ==
    LET k1 == SortedKeys(unique(view, c1))
        k2 == SortedKeys(unique(view, c2))
        n2 == Len(k2)
        all == [p \in 1..(Len(k1) * n2) |->
                  <<k1[((p - 1) \div n2) + 1], k2[((p - 1) % n2) + 1]>>]
        rowsOf(pair) == SelectSeq(view.rows, LAMBDA r : r[c1] = pair[1] /\ r[c2] = pair[2])
        present == SelectSeq(all, LAMBDA pair : rowsOf(pair) # <<>>)
    IN [k \in DOMAIN present |->
          [key |-> present[k], value |-> Mean(Prices(rowsOf(present[k])))]]

UnstackFillZero(series) ==
    LET index == SortedKeys({series[k].key[1] : k \in DOMAIN series})
        columns == SortedKeys({series[k].key[2] : k \in DOMAIN series})
    IN [index |-> index, columns |-> columns,
        cells |-> [pair \in Range(index) \X Range(columns) |->
                     IF \E k \in DOMAIN series : series[k].key = pair
                     THEN series[CHOOSE k \in DOMAIN series : series[k].key = pair].value
                     ELSE Number(0)]]

\* .unstack(): first key down the rows, second key across the columns,
\* NaN where the pair has no entry
Unstack(series) ==
    LET index == SortedKeys({series[k].key[1] : k \in DOMAIN series})
        columns == SortedKeys({series[k].key[2] : k \in DOMAIN series})
    IN [index |-> index, columns |-> columns,
        cells |-> [pair \in Range(index) \X Range(columns) |->
                     IF \E k \in DOMAIN series : series[k].key = pair
                     THEN series[CHOOSE k \in DOMAIN series : series[k].key = pair].value
                     ELSE NaN]]

\* line 76: DataFrame.plot raises TypeError("no numeric data to plot") on a
\* table without columns, which is the table of a view without rows; the
\* exception ends the run, Streamlit showing it in place of the rest
plot_raises(table) == table.columns = <<>>

Less(a, b) == a.num * b.den < b.num * a.den

Remove(s, i) == SubSeq(s, 1, i - 1) \o SubSeq(s, i + 1, Len(s))

\* whether value a goes before value b in the ranking
Beats(a, b, largest) == IF largest THEN Less(b, a) ELSE Less(a, b)

\* position of the first entry that no entry beats
FirstBest(series, largest) ==
    CHOOSE i \in DOMAIN series :
        /\ \A j \in DOMAIN series : ~Beats(series[j].value, series[i].value, largest)
        /\ \A j \in 1..(i - 1) : Beats(series[i].value, series[j].value, largest)

RECURSIVE TakeBest(_, _, _)
TakeBest(series, n, largest) ==
    IF n = 0 \/ series = <<>> THEN <<>>
    ELSE LET i == FirstBest(series, largest)
         IN <<series[i]>> \o TakeBest(Remove(series, i), n - 1, largest)

nlargestHead(series, n) == SubSeq(series, 1, IF n < Len(series) THEN n ELSE Len(series))

\* Series.nlargest(n), keep='first': the n largest, largest first, equal
\* values in the order of the series
nlargest(series, n) == TakeBest(series, n, TRUE)

\* Series.nsmallest(n), keep='first'
nsmallest(series, n) == TakeBest(series, n, FALSE)

(***************************************************************************)
(* Exporter, lines 148-162.                                                *)
(***************************************************************************)
\* the characters of the column names, for str.contains
Chars(name) ==
    CASE name = "Unnamed: 0" -> <<"U", "n", "n", "a", "m", "e", "d", ":", " ", "0">>
      [] name = "memberStateCode" ->
            <<"m", "e", "m", "b", "e", "r", "S", "t", "a", "t", "e", "C", "o", "d", "e">>
      [] name = "product" -> <<"p", "r", "o", "d", "u", "c", "t">>
      [] name = "variety_name" ->
            <<"v", "a", "r", "i", "e", "t", "y", "_", "n", "a", "m", "e">>
      [] name = "price" -> <<"p", "r", "i", "c", "e">>
      [] name = "beginDate" -> <<"b", "e", "g", "i", "n", "D", "a", "t", "e">>
      [] name = "month" -> <<"m", "o", "n", "t", "h">>

LowerChar(ch) ==
    CASE ch = "U" -> "u" [] ch = "S" -> "s" [] ch = "C" -> "c" [] ch = "D" -> "d"
      [] OTHER -> ch

Lower(chars) == [i \in DOMAIN chars |-> LowerChar(chars[i])]

Contains(chars, pat) ==
    \E i \in 1..(Len(chars) - Len(pat) + 1) : SubSeq(chars, i, i + Len(pat) - 1) = pat

Pattern == <<"u", "n", "n", "a", "m", "e", "d">>

\* str.contains('unnamed', case=False)
ContainsUnnamed(name) == Contains(Lower(Chars(name)), Pattern)

\* line 148: the labels of filtered_df.columns at the positions where the
\* mask computed from df.columns holds
DropLabels(maskColumns, labelColumns) ==
    {labelColumns[i] : i \in {j \in DOMAIN maskColumns \cap DOMAIN labelColumns :
                                 ContainsUnnamed(maskColumns[j])}}

\* drop(labels, axis=1, inplace=True): the object itself loses the columns
DropInplace(heap, id, labels) ==
    LET kept == SelectSeq(heap[id].columns, LAMBDA c : c \notin labels)
    IN [heap EXCEPT ![id] =
          [columns |-> kept,
           rows |-> [i \in DOMAIN heap[id].rows |->
                       [c \in Range(kept) |-> heap[id].rows[i][c]]]]]

\* to_csv's text of one cell.  A datetime is written year-month-day and NaT
\* and NaN as empty cells; the month column holds floats as soon as the
\* Dataset has a NaN month, and a float is written with its decimal point.
WriteCell(col, value, monthIsFloat) ==
    CASE col = "price" -> PriceText(value)
      [] col = "beginDate" -> IF value.nat THEN <<>> ELSE ISO(value.y, value.m, value.d)
      [] col = "month" ->
            IF value.nan THEN <<>>
            ELSE IF monthIsFloat THEN <<value.num, ".", 0>> ELSE <<value.num>>
      [] OTHER -> <<value>>

\* to_csv(index=False): the header, then one line per row, columns in order
to_csv(frame, monthIsFloat) ==
    [columns |-> frame.columns,
     rows |-> [i \in DOMAIN frame.rows |->
                 [c \in Range(frame.columns) |->
                    WriteCell(c, frame.rows[i][c], monthIsFloat)]]]

(***************************************************************************)
(* One run of the script, lines 1-187.                                     *)
(***************************************************************************)
NotRun == [columns |-> <<>>, rows |-> <<>>]

NoMetrics == [total |-> 0, average |-> NaN, varieties |-> 0]

NoTable == [index |-> <<>>, columns |-> <<>>, cells |-> <<>>]

\* The run raised at line 21: nothing after the load exists.
HaltAtLoad(raw) ==
    /\ frames' = <<raw>>
    /\ df' = 1
    /\ filtered_df' = 0
    /\ halted' = "line 21"
    /\ metrics' = NoMetrics
    /\ avg_prices' = NoTable
    /\ top_5_expensive' = <<>>
    /\ top_5_cheapest' = <<>>
    /\ csv' = NotRun

\* Lines 52-162 with the widget values sc, sp, sm, sv.
Pipeline(data, sc, sp, sm, sv) ==
    LET heap1 == <<data>>
        target == MaskTarget(heap1, 1)
        heap2 == Store(heap1, target, BooleanIndex(heap1[1], sc, sp, sv, sm))
        view == heap2[target]
        table == Unstack(GroupMean2(view, "memberStateCode", "product"))
        byVariety == GroupMean(view, "variety_name")
        heap3 == DropInplace(heap2, target,
                             DropLabels(heap2[1].columns, heap2[target].columns))
        monthIsFloat == \E i \in DOMAIN heap3[1].rows : heap3[1].rows[i].month.nan
    IN /\ df' = 1
       /\ filtered_df' = target
       /\ metrics' = Summary(view)
       /\ avg_prices' = table
       /\ IF plot_raises(table)
          THEN /\ halted' = "line 76"
               /\ frames' = heap2
               /\ top_5_expensive' = <<>>
               /\ top_5_cheapest' = <<>>
               /\ csv' = NotRun
          ELSE /\ halted' = "none"
               /\ frames' = heap3
               /\ top_5_expensive' = nlargest(byVariety, TopN)
               /\ top_5_cheapest' = nsmallest(byVariety, TopN)
               /\ csv' = to_csv(heap3[target], monthIsFloat)

\* The widgets are created by the first run that reaches them, with every
\* option selected; later runs read their current values.
RunScript(first, sc, sp, sm, sv) ==
    LET raw == load_data(source)
    IN /\ run_count' = run_count + 1
       /\ UNCHANGED source
       /\ IF to_datetime_raises(raw)
          THEN /\ HaltAtLoad(raw)
               /\ UNCHANGED <<selected_countries, selected_products,
                              selected_months, selected_varieties>>
          ELSE LET data == AddMonth(raw)
                   wc == IF first THEN unique(data, "memberStateCode") ELSE sc
                   wp == IF first THEN unique(data, "product") ELSE sp
                   wm == IF first THEN unique(data, "month") ELSE sm
                   wv == IF first THEN unique(data, "variety_name") ELSE sv
               IN /\ selected_countries' = wc
                  /\ selected_products' = wp
                  /\ selected_months' = wm
                  /\ selected_varieties' = wv
                  /\ Pipeline(data, wc, wp, wm, wv)

(***************************************************************************)
(* Session: the first run and the reruns after widget interactions.        *)
(***************************************************************************)
Unset ==
    /\ run_count = 0
    /\ selected_countries = {}
    /\ selected_products = {}
    /\ selected_months = {}
    /\ selected_varieties = {}
    /\ frames = <<>>
    /\ df = 0
    /\ filtered_df = 0
    /\ halted = "none"
    /\ metrics = NoMetrics
    /\ avg_prices = NoTable
    /\ top_5_expensive = <<>>
    /\ top_5_cheapest = <<>>
    /\ csv = NotRun

Init == source \in SmallFiles \cup RankFiles /\ Unset

FirstRun == run_count = 0 /\ RunScript(TRUE, {}, {}, {}, {})

\* the sidebar exists once a run got past the load
WidgetsShown == run_count > 0 /\ run_count < MaxRuns /\ halted # "line 21"

Toggle(S, x) == IF x \in S THEN S \ {x} ELSE S \cup {x}

\* the options of a widget of the sidebar
Options(col) == IF WidgetsShown THEN unique(frames[df], col) ELSE {}

ToggleCountry(x) ==
    /\ WidgetsShown
    /\ x \in Options("memberStateCode")
    /\ RunScript(FALSE, Toggle(selected_countries, x), selected_products,
                 selected_months, selected_varieties)

ToggleProduct(x) ==
    /\ WidgetsShown
    /\ x \in Options("product")
    /\ RunScript(FALSE, selected_countries, Toggle(selected_products, x),
                 selected_months, selected_varieties)

ToggleMonth(x) ==
    /\ WidgetsShown
    /\ x \in Options("month")
    /\ RunScript(FALSE, selected_countries, selected_products,
                 Toggle(selected_months, x), selected_varieties)

ToggleVariety(x) ==
    /\ WidgetsShown
    /\ x \in Options("variety_name")
    /\ RunScript(FALSE, selected_countries, selected_products,
                 selected_months, Toggle(selected_varieties, x))

\* the multiselect's "clear all" control
ClearCountries ==
    /\ WidgetsShown
    /\ RunScript(FALSE, {}, selected_products, selected_months, selected_varieties)

ClearProducts ==
    /\ WidgetsShown
    /\ RunScript(FALSE, selected_countries, {}, selected_months, selected_varieties)

ClearMonths ==
    /\ WidgetsShown
    /\ RunScript(FALSE, selected_countries, selected_products, {}, selected_varieties)

ClearVarieties ==
    /\ WidgetsShown
    /\ RunScript(FALSE, selected_countries, selected_products, selected_months, {})

Next ==
    \/ FirstRun
    \/ \E x \in Options("memberStateCode") : ToggleCountry(x)
    \/ \E x \in Options("product") : ToggleProduct(x)
    \/ \E x \in Options("month") : ToggleMonth(x)
    \/ \E x \in Options("variety_name") : ToggleVariety(x)
    \/ ClearCountries
    \/ ClearProducts
    \/ ClearMonths
    \/ ClearVarieties

Spec == Init /\ [][Next]_vars

(***************************************************************************)
(* Properties.                                                             *)
(***************************************************************************)
\* a run got past the load, so the Dataset and the Filtered View exist
Loaded == run_count > 0 /\ halted # "line 21"

Dataset == frames[df]

View == frames[filtered_df]

Restrict(row, cols) == [c \in cols |-> row[c]]

OnViewColumns(rows) == [i \in DOMAIN rows |-> Restrict(rows[i], Range(View.columns))]

Passes(r) ==
    /\ r.memberStateCode \in selected_countries
    /\ r.product \in selected_products
    /\ r.variety_name \in selected_varieties
    /\ r.month \in selected_months

ValuesOf(col) == {Dataset.rows[i][col] : i \in DOMAIN Dataset.rows}

AllSelected ==
    /\ selected_countries = ValuesOf("memberStateCode")
    /\ selected_products = ValuesOf("product")
    /\ selected_varieties = ValuesOf("variety_name")
    /\ selected_months = ValuesOf("month")

\* C1: after every run, the Filtered View is exactly the Dataset rows, in
\* Dataset order, whose country, product, variety and month are all in the
\* currently selected sets.
C1_ViewIsSelectedRows ==
    Loaded => View.rows = OnViewColumns(SelectSeq(Dataset.rows, Passes))

\* C1 witness: after a selection change, some rows are kept and some are not.
C1_Witness ==
    /\ Loaded
    /\ run_count > 1
    /\ View.rows # <<>>
    /\ Len(View.rows) < Len(Dataset.rows)

\* C2: with all four selections equal to the distinct values of the Dataset
\* (the default), the Filtered View is the whole Dataset: same rows, same
\* count, same order.
C2_AllSelectedIsIdentity ==
    Loaded /\ AllSelected =>
        /\ Len(View.rows) = Len(Dataset.rows)
        /\ View.rows = OnViewColumns(Dataset.rows)

\* C2 witness: a default selection over a Dataset of several rows, one of
\* them with an undefined month.
C2_Witness ==
    /\ Loaded
    /\ AllSelected
    /\ Len(Dataset.rows) > 1
    /\ \E i \in DOMAIN Dataset.rows : Dataset.rows[i].month.nan

\* C3: if one of the four selections is empty, the Filtered View is empty.
C3_EmptySelectionEmptyView ==
    Loaded /\ (\/ selected_countries = {}
               \/ selected_products = {}
               \/ selected_varieties = {}
               \/ selected_months = {})
        => View.rows = <<>>

\* C3 witness: the month selection was cleared over a Dataset with rows, the
\* other three selections still holding values.
C3_Witness ==
    /\ Loaded
    /\ selected_months = {}
    /\ selected_countries # {}
    /\ selected_products # {}
    /\ selected_varieties # {}
    /\ Dataset.rows # <<>>
    /\ View.rows = <<>>

\* C4 (as claimed): with an empty Filtered View the run raises nowhere, so it
\* reaches the export, and the average price metric is an explicit "no
\* data", neither NaN nor 0.
C4_EmptyViewReportsNoData ==
    Loaded /\ View.rows = <<>> =>
        /\ halted = "none"
        /\ metrics.average \notin {NaN, Number(0)}

RECURSIVE DirectSum(_, _, _)
DirectSum(rows, a, b) ==
    IF rows = <<>> THEN 0
    ELSE (IF Head(rows).memberStateCode = a /\ Head(rows).product = b
          THEN Head(rows).price ELSE 0) + DirectSum(Tail(rows), a, b)

RECURSIVE DirectCount(_, _, _)
DirectCount(rows, a, b) ==
    IF rows = <<>> THEN 0
    ELSE (IF Head(rows).memberStateCode = a /\ Head(rows).product = b
          THEN 1 ELSE 0) + DirectCount(Tail(rows), a, b)

ViewValues(col) == {View.rows[i][col] : i \in DOMAIN View.rows}

\* C5: the (country, product) table has one row per country and one column
\* per product of the view; the cell of a pair with rows in the view is the
\* arithmetic mean of their prices, as found by direct iteration, and the
\* cell of a pair without rows is "no value", never 0.
C5_GroupedMeanTable ==
    Loaded =>
        /\ Range(avg_prices.index) = ViewValues("memberStateCode")
        /\ Range(avg_prices.columns) = ViewValues("product")
        /\ \A a \in ViewValues("memberStateCode"), b \in ViewValues("product") :
              LET cell == avg_prices.cells[<<a, b>>]
                  n == DirectCount(View.rows, a, b)
              IN IF n > 0
                 THEN ~cell.nan /\ cell.num * n = DirectSum(View.rows, a, b) * cell.den
                 ELSE cell.nan /\ cell # Number(0)

\* C5 witness: a table with a cell that is the mean of two rows and a cell
\* without value.
C5_Witness ==
    /\ Loaded
    /\ \E a \in ViewValues("memberStateCode"), b \in ViewValues("product") :
          DirectCount(View.rows, a, b) > 1 /\ ~avg_prices.cells[<<a, b>>].nan
    /\ \E a \in ViewValues("memberStateCode"), b \in ViewValues("product") :
          avg_prices.cells[<<a, b>>].nan

RECURSIVE VarietySum(_, _)
VarietySum(rows, v) ==
    IF rows = <<>> THEN 0
    ELSE (IF Head(rows).variety_name = v THEN Head(rows).price ELSE 0)
         + VarietySum(Tail(rows), v)

RECURSIVE VarietyCount(_, _)
VarietyCount(rows, v) ==
    IF rows = <<>> THEN 0
    ELSE (IF Head(rows).variety_name = v THEN 1 ELSE 0) + VarietyCount(Tail(rows), v)

\* the mean of a variety over the view, as an unreduced fraction
VarietyMean(v) ==
    [nan |-> FALSE, num |-> VarietySum(View.rows, v), den |-> VarietyCount(View.rows, v)]

SameValue(a, b) == a.num * b.den = b.num * a.den

Ranked(ranking) == {ranking[k].key : k \in DOMAIN ranking}

\* a ranking of the right length whose entries are varieties of the view,
\* each with its mean, no variety twice
IsRanking(ranking) ==
    /\ Len(ranking) = (IF Cardinality(ViewValues("variety_name")) < TopN
                       THEN Cardinality(ViewValues("variety_name")) ELSE TopN)
    /\ Cardinality(Ranked(ranking)) = Len(ranking)
    /\ \A k \in DOMAIN ranking :
          /\ ranking[k].key \in ViewValues("variety_name")
          /\ SameValue(ranking[k].value, VarietyMean(ranking[k].key))

HighestIsSorted ==
    /\ IsRanking(top_5_expensive)
    /\ \A k \in 1..(Len(top_5_expensive) - 1) :
          ~Less(top_5_expensive[k].value, top_5_expensive[k + 1].value)
    /\ \A k \in DOMAIN top_5_expensive :
          \A v \in ViewValues("variety_name") \ Ranked(top_5_expensive) :
              ~Less(top_5_expensive[k].value, VarietyMean(v))

LowestIsSorted ==
    /\ IsRanking(top_5_cheapest)
    /\ \A k \in 1..(Len(top_5_cheapest) - 1) :
          ~Less(top_5_cheapest[k + 1].value, top_5_cheapest[k].value)
    /\ \A k \in DOMAIN top_5_cheapest :
          \A v \in ViewValues("variety_name") \ Ranked(top_5_cheapest) :
              ~Less(VarietyMean(v), top_5_cheapest[k].value)

ManyVarieties == Cardinality(ViewValues("variety_name")) >= 2 * TopN

\* C6 (as claimed): the highest ranking is sorted descending and the lowest
\* ascending, no ranked variety is beaten by a variety outside its ranking,
\* and with at least 10 varieties in the view the rankings share no variety.
C6_RankingsDisjoint ==
    Loaded =>
        /\ HighestIsSorted
        /\ LowestIsSorted
        /\ (ManyVarieties => Ranked(top_5_expensive) \cap Ranked(top_5_cheapest) = {})

\* C6 (amended): the same, except that with at least 10 varieties in the
\* view a variety is in both rankings only if another variety of the view
\* has the same mean.
C6_RankingsShareOnlyTies ==
    Loaded =>
        /\ HighestIsSorted
        /\ LowestIsSorted
        /\ (ManyVarieties =>
              \A v \in Ranked(top_5_expensive) \cap Ranked(top_5_cheapest) :
                  \E w \in ViewValues("variety_name") \ {v} :
                      SameValue(VarietyMean(v), VarietyMean(w)))

\* C6 witness: at least 10 varieties with pairwise different means, ranked
\* into two full rankings without a common variety.
C6_Witness ==
    /\ Loaded
    /\ halted = "none"
    /\ ManyVarieties
    /\ \A v, w \in ViewValues("variety_name") :
          v # w => ~SameValue(VarietyMean(v), VarietyMean(w))
    /\ Len(top_5_expensive) = TopN
    /\ Len(top_5_cheapest) = TopN
    /\ Ranked(top_5_expensive) \cap Ranked(top_5_cheapest) = {}

\* C7 (as claimed): every run past the load exports a header and one line
\* per row of the view (none for an empty view); the exported columns are the
\* columns of the input file without those whose name contains "unnamed".
C7_ExportColumnsAreInputColumns ==
    Loaded =>
        /\ halted = "none"
        /\ Len(csv.rows) = Len(View.rows)
        /\ Range(csv.columns) = {c \in Range(source.columns) : ~ContainsUnnamed(c)}

\* C8 (as claimed): loading the exported file again, with beginDate read as
\* day/month/year, gives the rows of the view: same count, same values.
C8_ExportRoundTrip ==
    Loaded /\ halted = "none" =>
        LET back == load_data(csv)
        IN /\ ~to_datetime_raises(back)
           /\ Len(back.rows) = Len(View.rows)
           /\ \A i \in DOMAIN back.rows :
                 /\ ConvertCell(back.rows[i].beginDate) = View.rows[i].beginDate
                 /\ \A c \in Range(BaseColumns) \ {"beginDate"} :
                       back.rows[i][c] = View.rows[i][c]

\* C9 (as claimed): if the beginDate cell of some row of the file is not a
\* day/month/year date, the run halts at the load and nothing is filtered;
\* otherwise every row's month is the month, 1 to 12, of its date.
C9_BadDateFailsLoad ==
    run_count > 0 =>
        IF \E i \in DOMAIN source.rows : ~MatchesFormat(source.rows[i].beginDate)
        THEN halted = "line 21" /\ filtered_df = 0
        ELSE /\ Loaded
             /\ \A i \in DOMAIN Dataset.rows :
                   /\ ~Dataset.rows[i].month.nan
                   /\ Dataset.rows[i].month.num \in 1..12
                   /\ Dataset.rows[i].month.num = source.rows[i].beginDate[3]

\* C10: at the end of every run past the load, the Dataset is what the load
\* made it: the rows of the file in order, with all the columns of the file,
\* the placeholder column included, and the month column.
C10_DatasetUnchanged ==
    Loaded =>
        /\ Dataset = AddMonth(load_data(source))
        /\ Dataset.columns = Append(source.columns, "month")
        /\ Len(Dataset.rows) = Len(source.rows)

\* C10 witness: a run that filtered rows out and dropped the placeholder
\* column from the view, the Dataset still holding both.
C10_Witness ==
    /\ Loaded
    /\ halted = "none"
    /\ PlaceholderColumn \in Range(Dataset.columns)
    /\ PlaceholderColumn \notin Range(View.columns)
    /\ Len(View.rows) < Len(Dataset.rows)

====
